---------------------------- MODULE Spec2Model ----------------------------
(***************************************************************************)
(* Model of the paper aggregation pipeline of mech-interp-hub:             *)
(*   scripts/fetch_papers.py  (connectors, relevance filter, tag           *)
(*                             generator, merge/dedup, catalog store, main)*)
(*   scripts/generate_rss.py  (feed publisher)                             *)
(* Python strings are TLA+ strings; they are taken apart with Len, SubSeq  *)
(* and \o only, so that lower(), strip(), slicing, substring search and    *)
(* string comparison are computed character by character as Python does.  *)
(***************************************************************************)
EXTENDS Integers, Sequences, FiniteSets, TLC

VARIABLES
    file,            \* data/papers.json: absent, or the stored dict
    now,             \* datetime.now(), as a day ordinal
    pc,              \* position of the running program
    qi,              \* number of queries already issued in the current loop
    response,        \* what the network gave for the last request
    papers,          \* the list a connector returned last
    all_new_papers,  \* main's all_new_papers / merge_papers' argument new
    existing_data,   \* main's existing_data (its 'papers' is merge's existing)
    merged_papers,   \* the list merge_papers returned last
    saves,           \* number of save_papers calls of the current run
    hist,            \* what the current run did so far (history only)
    feed             \* feed.xml: absent, or the document generate_rss wrote

vars == <<file, now, pc, qi, response, papers, all_new_papers,
          existing_data, merged_papers, saves, hist, feed>>

---------------------------------------------------------------------------
(* Python str operations                                                   *)

\* Code points, in increasing order, of the characters the model uses.
CodePoints ==
    "\t\n\r !\"#&'()+,-./0123456789:;<=>?ABCDEFGHIJKLMNOPQRSTUVWXYZ[]_abcdefghijklmnopqrstuvwxyz"

UpperCase == "ABCDEFGHIJKLMNOPQRSTUVWXYZ"
LowerCase == "abcdefghijklmnopqrstuvwxyz"
Whitespace == {" ", "\t", "\n", "\r"}

Min(a, b) == IF a <= b THEN a ELSE b
Max(a, b) == IF a >= b THEN a ELSE b

\* s[i] for a 1-based index
CharAt(s, i) == SubSeq(s, i, i)

\* s[:n]
Prefix(s, n) == SubSeq(s, 1, Min(Len(s), n))

\* s[n:]  (0-based n, as in Python)
Suffix(s, n) == IF n >= Len(s) THEN "" ELSE SubSeq(s, n + 1, Len(s))

IndexIn(alphabet, c) ==
    IF \E i \in 1..Len(alphabet) : CharAt(alphabet, i) = c
    THEN CHOOSE i \in 1..Len(alphabet) : CharAt(alphabet, i) = c
    ELSE 0

CharsOf(alphabet) == {CharAt(alphabet, i) : i \in 1..Len(alphabet)}

OrdTable == [c \in CharsOf(CodePoints) |-> IndexIn(CodePoints, c)]

\* ord(c), for the order of two characters
Ord(c) == OrdTable[c]

LowerTable ==
    [c \in CharsOf(UpperCase) |-> CharAt(LowerCase, IndexIn(UpperCase, c))]

lower_char(c) == IF c \in DOMAIN LowerTable THEN LowerTable[c] ELSE c

RECURSIVE lower(_)
\* str.lower(), character by character (halving keeps the evaluation shallow)
lower(s) ==
    IF s = "" THEN ""
    ELSE IF Len(s) = 1 THEN lower_char(s)
    ELSE lower(Prefix(s, Len(s) \div 2)) \o lower(Suffix(s, Len(s) \div 2))

RECURSIVE lstrip(_)
lstrip(s) ==
    IF s # "" /\ CharAt(s, 1) \in Whitespace THEN lstrip(Suffix(s, 1)) ELSE s

RECURSIVE rstrip(_)
rstrip(s) ==
    IF s # "" /\ CharAt(s, Len(s)) \in Whitespace
    THEN rstrip(SubSeq(s, 1, Len(s) - 1))
    ELSE s

\* str.strip()
strip(s) == rstrip(lstrip(s))

\* term in content
Contains(content, term) ==
    \E i \in 1..(Len(content) - Len(term) + 1) :
        SubSeq(content, i, i + Len(term) - 1) = term

RECURSIVE StrLess(_, _)
\* a < b for Python strings: lexicographic by code point
StrLess(a, b) ==
    IF b = "" THEN FALSE
    ELSE IF a = "" THEN TRUE
    ELSE IF CharAt(a, 1) = CharAt(b, 1) THEN StrLess(Suffix(a, 1), Suffix(b, 1))
    ELSE Ord(CharAt(a, 1)) < Ord(CharAt(b, 1))

RECURSIVE Repeat(_, _)
\* c * n
Repeat(c, n) ==
    IF n <= 0 THEN ""
    ELSE IF n = 1 THEN c
    ELSE Repeat(c, n \div 2) \o Repeat(c, n - n \div 2)

---------------------------------------------------------------------------
(* datetime: a date is its day ordinal (days since 1970-01-01)             *)

Digits == "0123456789"

is_digit(c) == IndexIn(Digits, c) # 0

RECURSIVE to_int(_)
\* int(s) for a string of decimal digits
to_int(s) ==
    IF s = "" THEN 0
    ELSE 10 * to_int(SubSeq(s, 1, Len(s) - 1)) + (IndexIn(Digits, CharAt(s, Len(s))) - 1)

RECURSIVE zero_pad(_, _)
\* '%0<width>d' % n
zero_pad(n, width) ==
    IF width <= 1 /\ n < 10 THEN CharAt(Digits, n + 1)
    ELSE zero_pad(n \div 10, width - 1) \o CharAt(Digits, (n % 10) + 1)

is_leap(y) == (y % 4 = 0 /\ y % 100 # 0) \/ y % 400 = 0

days_in_month(y, m) ==
    IF m = 2 THEN (IF is_leap(y) THEN 29 ELSE 28)
    ELSE IF m \in {4, 6, 9, 11} THEN 30 ELSE 31

\* the day ordinal of the civil date y-m-d
days_from_civil(y, m, d) ==
    LET yy  == IF m <= 2 THEN y - 1 ELSE y
        era == yy \div 400
        yoe == yy - era * 400
        mp  == IF m > 2 THEN m - 3 ELSE m + 9
        doy == (153 * mp + 2) \div 5 + d - 1
        doe == yoe * 365 + yoe \div 4 - yoe \div 100 + doy
    IN  era * 146097 + doe - 719468

\* the civil date <<y, m, d>> of a day ordinal
civil_from_days(z) ==
    LET zz  == z + 719468
        era == zz \div 146097
        doe == zz - era * 146097
        yoe == (doe - doe \div 1460 + doe \div 36524 - doe \div 146096) \div 365
        doy == doe - (365 * yoe + yoe \div 4 - yoe \div 100)
        mp  == (5 * doy + 2) \div 153
        d   == doy - (153 * mp + 2) \div 5 + 1
        m   == IF mp < 10 THEN mp + 3 ELSE mp - 9
        y   == yoe + era * 400 + (IF m <= 2 THEN 1 ELSE 0)
    IN  <<y, m, d>>

\* day.strftime('%Y-%m-%d')
strftime(day) ==
    LET c == civil_from_days(day)
    IN  zero_pad(c[1], 4) \o "-" \o zero_pad(c[2], 2) \o "-" \o zero_pad(c[3], 2)

all_digits(s) == \A i \in 1..Len(s) : is_digit(CharAt(s, i))

\* positions of "-" in s
dashes(s) == {i \in 1..Len(s) : CharAt(s, i) = "-"}

\* the directive %m: 1[0-2]|0[1-9]|[1-9]
is_month_text(s) ==
    /\ s # "" /\ Len(s) <= 2 /\ all_digits(s)
    /\ to_int(s) \in 1..12
    /\ Len(s) = 1 => s # "0"

\* the directive %d: 3[01]|[12]\d|0[1-9]|[1-9]| [1-9]
is_day_text(s) ==
    \/ /\ s # "" /\ Len(s) <= 2 /\ all_digits(s) /\ to_int(s) \in 1..31
    \/ /\ Len(s) = 2 /\ CharAt(s, 1) = " " /\ is_digit(CharAt(s, 2))
       /\ CharAt(s, 2) # "0"

NoDate == -1000000

\* datetime.strptime(s, '%Y-%m-%d'): the day ordinal, or NoDate where Python
\* raises ValueError
strptime(s) ==
    LET ds == dashes(s)
    IN  IF Cardinality(ds) # 2 THEN NoDate
        ELSE LET i  == CHOOSE i \in ds : \A j \in ds : i <= j
                 j  == CHOOSE j \in ds : \A k \in ds : k <= j
                 ys == SubSeq(s, 1, i - 1)
                 ms == SubSeq(s, i + 1, j - 1)
                 dt == SubSeq(s, j + 1, Len(s))
             IN  IF ~(Len(ys) = 4 /\ all_digits(ys) /\ is_month_text(ms)
                      /\ is_day_text(dt))
                 THEN NoDate
                 ELSE LET y == to_int(ys)
                          m == to_int(ms)
                          d == to_int(strip(dt))
                      IN  IF y >= 1 /\ d <= days_in_month(y, m)
                          THEN days_from_civil(y, m, d)
                          ELSE NoDate

---------------------------------------------------------------------------
(* Paper records and the catalog                                           *)

\* a paper dict as it would be if fetched papers were featured
Paper_featured(id, title, authors, date, url, abstract, tags, source) ==
    [id |-> id, title |-> title, authors |-> authors, date |-> date,
     url |-> url, abstract |-> abstract, tags |-> tags, source |-> source,
     featured |-> TRUE]

\* a paper dict with the nine keys both connectors write
Paper(id, title, authors, date, url, abstract, tags, source) ==
    [id |-> id, title |-> title, authors |-> authors, date |-> date,
     url |-> url, abstract |-> abstract, tags |-> tags, source |-> source,
     featured |-> FALSE]

EmptyCatalog == [lastUpdated |-> "", papers |-> <<>>]

\* feed.xml before generate_rss has run
NoFeed == [exists |-> FALSE, lastBuildDate |-> "", items |-> <<>>]

\* data/papers.json: absent, or present with the dict json.dump wrote
NoFile == [exists |-> FALSE, data |-> EmptyCatalog]
StoredFile(data) == [exists |-> TRUE, data |-> data]

\* load_existing_papers: the stored dict, or an empty catalog when the file
\* does not exist (FileNotFoundError)
load_existing_papers ==
    IF file.exists THEN file.data ELSE [lastUpdated |-> "", papers |-> <<>>]

---------------------------------------------------------------------------
(* merge_papers                                                            *)

TITLE_PREFIX_LEN == 100

\* p.get('title', '').lower().strip()[:100]
title_key(p) == Prefix(strip(lower(p.title)), TITLE_PREFIX_LEN)

\* the three membership sets built from a list
ids_of(list) == {list[i].id : i \in 1..Len(list)}
urls_of(list) == {list[i].url : i \in 1..Len(list)}
titles_of(list) == {title_key(list[i]) : i \in 1..Len(list)}

\* is_new without the title test (lines 318-320 left out)
is_new_without_title(paper, existing_ids, existing_urls, existing_titles) ==
    ~(paper.id \in existing_ids \/ paper.url \in existing_urls)

\* is_new with the id test left out of line 315
is_new_without_id(paper, existing_ids, existing_urls, existing_titles) ==
    /\ ~(paper.url \in existing_urls)
    /\ ~(title_key(paper) \in existing_titles)

\* the two 'continue' tests of the loop body, negated
is_new(paper, existing_ids, existing_urls, existing_titles) ==
    /\ ~(paper.id \in existing_ids \/ paper.url \in existing_urls)
    /\ ~(title_key(paper) \in existing_titles)

RECURSIVE merge_loop_forgetful(_, _, _, _, _)
\* the loop with lines 323-325 left out: accepted records are not remembered
merge_loop_forgetful(merged, new, existing_ids, existing_urls, existing_titles) ==
    IF new = <<>> THEN merged
    ELSE merge_loop_forgetful(
             IF is_new(Head(new), existing_ids, existing_urls, existing_titles)
             THEN Append(merged, Head(new)) ELSE merged,
             Tail(new), existing_ids, existing_urls, existing_titles)

RECURSIVE merge_loop(_, _, _, _, _)
\* the for loop: merged is the running result, new the candidates left
merge_loop(merged, new, existing_ids, existing_urls, existing_titles) ==
    IF new = <<>> THEN merged
    ELSE LET paper == Head(new)
         IN  IF is_new(paper, existing_ids, existing_urls, existing_titles)
             THEN merge_loop(Append(merged, paper), Tail(new),
                             existing_ids \cup {paper.id},
                             existing_urls \cup {paper.url},
                             existing_titles \cup {title_key(paper)})
             ELSE merge_loop(merged, Tail(new),
                             existing_ids, existing_urls, existing_titles)

RECURSIVE insert_desc(_, _)
\* p placed behind every record whose date is not smaller than its own
insert_desc(sorted, p) ==
    IF sorted = <<>> THEN <<p>>
    ELSE IF StrLess(Head(sorted).date, p.date) THEN <<p>> \o sorted
    ELSE <<Head(sorted)>> \o insert_desc(Tail(sorted), p)

RECURSIVE sort_loop(_, _)
sort_loop(sorted, rest) ==
    IF rest = <<>> THEN sorted
    ELSE sort_loop(insert_desc(sorted, Head(rest)), Tail(rest))

RECURSIVE insert_desc_before_equal(_, _)
insert_desc_before_equal(sorted, p) ==
    IF sorted = <<>> THEN <<p>>
    ELSE IF ~StrLess(p.date, Head(sorted).date) THEN <<p>> \o sorted
    ELSE <<Head(sorted)>> \o insert_desc_before_equal(Tail(sorted), p)

RECURSIVE sort_loop_reversing(_, _)
sort_loop_reversing(sorted, rest) ==
    IF rest = <<>> THEN sorted
    ELSE sort_loop_reversing(insert_desc_before_equal(sorted, Head(rest)),
                             Tail(rest))

\* sorted(list, key=date)[::-1]: descending, but equal dates end up reversed
sort_by_date_reversing(list) == sort_loop_reversing(<<>>, list)

\* list.sort(key=lambda x: x.get('date', ''), reverse=True): a stable sort;
\* with reverse=True records with equal keys keep their original order
sort_by_date(list) == sort_loop(<<>>, list)

\* merge_papers as it would be if the batch replaced the catalog
merge_papers_replacing(existing, new) ==
    sort_by_date(merge_loop(<<>>, new, {}, {}, {}))

merge_papers(existing, new) ==
    sort_by_date(merge_loop(existing, new, ids_of(existing),
                            urls_of(existing), titles_of(existing)))

---------------------------------------------------------------------------
(* generate_tags and is_relevant_paper                                     *)

\* tag_keywords, in the order of the dict literal
tag_keywords ==
    << <<"SAE", <<"sparse autoencoder", "sae ", "saes">> >>,
       <<"circuits", <<"circuit", "computational graph">> >>,
       <<"superposition", <<"superposition">> >>,
       <<"features", <<"feature", "monosemantic", "polysemantic">> >>,
       <<"safety", <<"safety", "alignment", "harmful">> >>,
       <<"probing", <<"probe", "probing", "classifier">> >>,
       <<"attention", <<"attention head", "attention pattern">> >>,
       <<"steering", <<"steering", "activation engineering">> >>,
       <<"editing", <<"model editing", "knowledge editing">> >>,
       <<"survey", <<"survey", "review", "overview">> >>,
       <<"theory", <<"theoretical", "theory", "mathematical framework">> >>,
       <<"vision", <<"vision", "visual", "multimodal", "image">> >>,
       <<"biology", <<"protein", "dna", "biological", "biology">> >>,
       <<"reasoning", <<"reasoning", "chain-of-thought", "cot">> >> >>

\* any(kw in content for kw in keywords)
any_in(keywords, content) ==
    \E k \in 1..Len(keywords) : Contains(content, keywords[k])

RECURSIVE matching_tags(_, _)
\* the for loop over tag_keywords.items(), from entry i on
matching_tags(i, content) ==
    IF i > Len(tag_keywords) THEN <<>>
    ELSE (IF any_in(tag_keywords[i][2], content)
          THEN <<tag_keywords[i][1]>> ELSE <<>>)
         \o matching_tags(i + 1, content)

RECURSIVE dict_fromkeys(_)
\* list(dict.fromkeys(tags)): the first occurrence of every tag
dict_fromkeys(tags) ==
    IF tags = <<>> THEN <<>>
    ELSE <<Head(tags)>>
         \o dict_fromkeys(SelectSeq(Tail(tags), LAMBDA t : t # Head(tags)))

\* generate_tags as it would be without the limit
generate_tags_unlimited(title, abstract) ==
    dict_fromkeys(matching_tags(1, lower(title \o " " \o abstract)))

generate_tags(title, abstract) ==
    LET content == lower(title \o " " \o abstract)
    IN  SubSeq(dict_fromkeys(matching_tags(1, content)), 1,
               Min(6, Len(dict_fromkeys(matching_tags(1, content)))))

strong_terms ==
    <<"mechanistic interpretability", "sparse autoencoder", "transformer circuit",
      "activation patching", "superposition", "monosemantic", "polysemantic",
      "feature steering", "probing classifier", "logit lens", "transcoder",
      "crosscoder", "representation engineering", "causal tracing">>

interp_terms ==
    <<"interpretab", "explain", "understand", "circuit", "mechanis", "feature">>

ml_terms ==
    <<"neural", "transformer", "language model", "llm", "gpt", "bert",
      "attention", "deep learning", "large language">>

\* is_relevant_paper as it would be if every paper needed an ML term
is_relevant_needing_ml(paper) ==
    LET content == lower(paper.title) \o " " \o lower(paper.abstract)
    IN  /\ any_in(ml_terms, content)
        /\ \/ any_in(strong_terms, content)
           \/ any_in(interp_terms, content)

is_relevant_paper(paper) ==
    LET content == lower(paper.title) \o " " \o lower(paper.abstract)
    IN  \/ any_in(strong_terms, content)
        \/ any_in(interp_terms, content) /\ any_in(ml_terms, content)

---------------------------------------------------------------------------
(* The connectors                                                          *)

DAYS_LOOKBACK == 60

\* An XML element or a JSON member: absent (find() or get() gives None),
\* empty (an element whose text is None, a JSON null), or holding a string.
Absent == [tag |-> "absent", text |-> ""]
Empty == [tag |-> "empty", text |-> ""]
Text(t) == [tag |-> "text", text |-> t]

NoPaper == Paper("", "", "", "", "", "", <<>>, "")

\* what one pass of a connector's loop body does with an entry: "ok" appends
\* paper, "skip" is a continue, "error" is an exception caught by the
\* except clause of the loop body
Ok(paper) == [status |-> "ok", paper |-> paper]
Skip == [status |-> "skip", paper |-> NoPaper]
Error == [status |-> "error", paper |-> NoPaper]

\* what a call gives: the list it returns, or an exception it lets out
Returns(list) == [raised |-> FALSE, value |-> list]
Raises == [raised |-> TRUE, value |-> <<>>]

RECURSIVE replace_char(_, _, _)
\* s.replace(old, new) for single characters
replace_char(s, old, new) ==
    IF s = "" THEN ""
    ELSE IF Len(s) = 1 THEN (IF s = old THEN new ELSE s)
    ELSE replace_char(Prefix(s, Len(s) \div 2), old, new)
         \o replace_char(Suffix(s, Len(s) \div 2), old, new)

\* s.split(sep)[-1]: what follows the last occurrence of sep
after_last(s, sep) ==
    LET at == {i \in 1..(Len(s) - Len(sep) + 1) :
                   SubSeq(s, i, i + Len(sep) - 1) = sep}
    IN  IF at = {} THEN s
        ELSE Suffix(s, (CHOOSE i \in at : \A j \in at : j <= i) + Len(sep) - 1)

RECURSIVE join(_, _)
\* sep.join(list)
join(sep, list) ==
    IF list = <<>> THEN ""
    ELSE IF Len(list) = 1 THEN list[1]
    ELSE list[1] \o sep \o join(sep, Tail(list))

\* list[:n]
Take(list, n) == SubSeq(list, 1, Min(n, Len(list)))

\* the body of the loop of fetch_arxiv_papers for one atom:entry, today being
\* the date of datetime.now() (its time of day is after midnight)
arxiv_entry(entry, today) ==
    IF entry.id.tag = "absent" THEN Skip
    ELSE IF entry.id.tag = "empty" THEN Error
    ELSE IF entry.title.tag = "empty" THEN Error
    ELSE LET arxiv_id == after_last(entry.id.text, "/abs/")
             title == IF entry.title.tag = "absent" THEN ""
                      ELSE replace_char(strip(entry.title.text), "\n", " ")
             names == SelectSeq(entry.authors, LAMBDA n : n.tag # "absent")
         IN  IF \E k \in 1..Min(5, Len(names)) : names[k].tag = "empty"
             THEN Error
             ELSE IF entry.summary.tag = "empty" \/ entry.published.tag = "empty"
             THEN Error
             ELSE LET authors_str ==
                          join(", ", [k \in 1..Min(5, Len(names)) |-> names[k].text])
                          \o (IF Len(names) > 5 THEN ", et al." ELSE "")
                      abstract ==
                          IF entry.summary.tag = "absent" THEN ""
                          ELSE Prefix(replace_char(strip(entry.summary.text),
                                                   "\n", " "), 500)
                      date_str ==
                          IF entry.published.tag = "text"
                          THEN Prefix(entry.published.text, 10)
                          ELSE strftime(today)
                      paper_date == strptime(date_str)
                  IN  IF paper_date = NoDate THEN Error
                      ELSE IF paper_date <= today - DAYS_LOOKBACK THEN Skip
                      ELSE Ok(Paper(
                               "arxiv-" \o replace_char(
                                   replace_char(arxiv_id, "/", "-"), ".", "-"),
                               title, authors_str, date_str,
                               "https://arxiv.org/abs/" \o arxiv_id,
                               abstract, generate_tags(title, abstract),
                               "arXiv"))

RECURSIVE arxiv_loop_stopping(_, _)
\* the loop as it would be if the try enclosed it: the first entry that
\* raises ends it
arxiv_loop_stopping(entries, today) ==
    IF entries = <<>> THEN <<>>
    ELSE LET r == arxiv_entry(Head(entries), today)
         IN  IF r.status = "error" THEN <<>>
             ELSE (IF r.status = "ok" THEN <<r.paper>> ELSE <<>>)
                  \o arxiv_loop_stopping(Tail(entries), today)

RECURSIVE arxiv_loop(_, _)
\* for entry in root.findall('atom:entry', ns)
arxiv_loop(entries, today) ==
    IF entries = <<>> THEN <<>>
    ELSE LET r == arxiv_entry(Head(entries), today)
         IN  (IF r.status = "ok" THEN <<r.paper>> ELSE <<>>)
             \o arxiv_loop(Tail(entries), today)

NoResponse == [kind |-> "none", entries |-> <<>>]

\* fetch_arxiv_papers(query): the response is what the request gave.
\*   "unreachable", "timeout": urlopen or read raises inside the try
\*   "malformed": a body that ET.fromstring cannot parse (line 102, outside
\*                every try)
\*   "ok": a feed with the entries response.entries
fetch_arxiv_papers(resp, today) ==
    IF resp.kind \in {"unreachable", "timeout"} THEN Returns(<<>>)
    ELSE IF resp.kind = "malformed" THEN Raises
    ELSE Returns(arxiv_loop(resp.entries, today))

\* the body of the loop of fetch_semantic_scholar for one element of data
ss_entry(paper) ==
    IF ~paper.is_dict THEN Error
    ELSE IF paper.title.text = "" \/ paper.publicationDate.text = "" THEN Skip
    ELSE IF paper.externalIds.tag = "empty" THEN Error
    ELSE IF paper.externalIds.text # "" THEN Skip
    ELSE IF paper.paperId.tag = "empty" THEN Error
    ELSE LET authors ==
                 Take(paper.authors, 5)
                 \o (IF Len(paper.authors) > 5 THEN <<"et al.">> ELSE <<>>)
             abstract == Prefix(paper.abstract.text, 500)
         IN  Ok(Paper("ss-" \o Prefix(paper.paperId.text, 20),
                      paper.title.text, join(", ", authors),
                      paper.publicationDate.text, paper.url.text, abstract,
                      generate_tags(paper.title.text, abstract),
                      "Semantic Scholar"))

RECURSIVE ss_loop(_)
\* for paper in data.get('data', [])
ss_loop(entries) ==
    IF entries = <<>> THEN <<>>
    ELSE LET r == ss_entry(Head(entries))
         IN  (IF r.status = "ok" THEN <<r.paper>> ELSE <<>>)
             \o ss_loop(Tail(entries))

\* fetch_semantic_scholar(query): the response is what the request gave.
\*   "unreachable", "timeout": urlopen or read raises inside the try
\*   "malformed": a body json.loads cannot parse, also inside the try
\*   "not_object": JSON that is no object; data.get raises at line 190,
\*                 outside every try
\*   "ok": an object whose 'data' holds response.entries
fetch_semantic_scholar(resp) ==
    IF resp.kind \in {"unreachable", "timeout", "malformed"} THEN Returns(<<>>)
    ELSE IF resp.kind = "not_object" THEN Raises
    ELSE Returns(ss_loop(resp.entries))

---------------------------------------------------------------------------
(* main, from the load of the catalog on (lines 366-378)                   *)

\* hist: the requests issued, those of each source that failed as
\* unreachable or timed out, the dict load_existing_papers returned, whether
\* it found the file, the date line 375 read, the steps of the run in the
\* order they were taken, and the records the connectors returned
NoHist ==
    [requests |-> 0, arxiv_failed |-> 0, ss_failed |-> 0,
     loaded |-> EmptyCatalog, found |-> FALSE, run_date |-> 0,
     events |-> <<>>, fetched |-> <<>>]

\* Load as it would be if a missing file were an error
Load_requiring_file ==
    /\ UNCHANGED feed
    /\ pc = "load"
    /\ existing_data' = load_existing_papers
    /\ hist' = [hist EXCEPT !.loaded = load_existing_papers,
                            !.found = file.exists,
                            !.events = Append(@, "load")]
    /\ pc' = IF file.exists THEN "merge" ELSE "aborted"
    /\ UNCHANGED <<file, now, qi, response, papers, all_new_papers,
                   merged_papers, saves>>

\* existing_data = load_existing_papers()
Load ==
    /\ UNCHANGED feed
    /\ pc = "load"
    /\ existing_data' = load_existing_papers
    /\ hist' = [hist EXCEPT !.loaded = load_existing_papers,
                            !.found = file.exists,
                            !.events = Append(@, "load")]
    /\ pc' = "merge"
    /\ UNCHANGED <<file, now, qi, response, papers, all_new_papers,
                   merged_papers, saves>>

\* Merge as it would be if lastUpdated were set only when a record was added
Merge_dating_additions ==
    /\ UNCHANGED feed
    /\ pc = "merge"
    /\ merged_papers' = merge_papers(existing_data.papers, all_new_papers)
    /\ existing_data' =
           [existing_data EXCEPT
                !.papers = merged_papers',
                !.lastUpdated =
                    IF Len(merged_papers') > Len(existing_data.papers)
                    THEN strftime(now) ELSE @]
    /\ hist' = [hist EXCEPT !.run_date = now,
                            !.events = Append(@, "merge")]
    /\ pc' = "save"
    /\ UNCHANGED <<file, now, qi, response, papers, all_new_papers, saves>>

\* merged_papers = merge_papers(existing_papers, all_new_papers), then the
\* two assignments to existing_data
Merge ==
    /\ UNCHANGED feed
    /\ pc = "merge"
    /\ merged_papers' = merge_papers(existing_data.papers, all_new_papers)
    /\ existing_data' = [existing_data EXCEPT !.papers = merged_papers',
                                              !.lastUpdated = strftime(now)]
    /\ hist' = [hist EXCEPT !.run_date = now,
                            !.events = Append(@, "merge")]
    /\ pc' = "save"
    /\ UNCHANGED <<file, now, qi, response, papers, all_new_papers, saves>>

\* Save as it would be if the catalog were written a second time
Save_again ==
    /\ UNCHANGED feed
    /\ pc = "save"
    /\ file' = StoredFile(existing_data)
    /\ saves' = saves + 1
    /\ hist' = [hist EXCEPT !.events = Append(@, "save")]
    /\ pc' = IF saves = 0 THEN "save" ELSE "done"
    /\ UNCHANGED <<now, qi, response, papers, all_new_papers, existing_data,
                   merged_papers>>

\* save_papers(existing_data): the file is overwritten
Save ==
    /\ UNCHANGED feed
    /\ pc = "save"
    /\ file' = StoredFile(existing_data)
    /\ saves' = saves + 1
    /\ hist' = [hist EXCEPT !.events = Append(@, "save")]
    /\ pc' = "done"
    /\ UNCHANGED <<now, qi, response, papers, all_new_papers, existing_data,
                   merged_papers>>

---------------------------------------------------------------------------
(* Records the merge is exercised with                                     *)

Day1 == "2024-01-09"
Day2 == "2024-01-10"
Day3 == "2024-02-01"

\* the day the runs of SpecRuns and SpecMerge happen on
Today == days_from_civil(2024, 2, 2)

MergePaper(id, url, title, date) ==
    Paper(id, title, "A. Author", date, url, "", <<>>, "arXiv")

\* Six records: R1/R3 share an id, R2/R4 a url, R5/R6 the empty url,
\* R1/R2 a title up to case and blanks, R3/R5 a title up to case within
\* the first TITLE_PREFIX_LEN characters.
R1 == MergePaper("a", "u1", "Ab", Day2)
R2 == MergePaper("b", "u2", " ab ", Day1)
R3 == MergePaper("a", "u3", Repeat("x", TITLE_PREFIX_LEN) \o "y", Day1)
R4 == MergePaper("c", "u2", "d", Day3)
R5 == MergePaper("d", "", Repeat("X", TITLE_PREFIX_LEN) \o "z", Day2)
R6 == MergePaper("e", "", "e", Day1)

MergeUniverse == {R1, R2, R3, R4, R5, R6}

\* SpecMerge: the records of one call, existing and new together
MaxCallRecords == 4
\* SpecRuns: the records one run collects
MaxRunBatch == 2

\* the lists over S of length at most n
ListsUpTo(S, n) == UNION {[1..k -> S] : k \in 0..n}

Range(list) == {list[i] : i \in 1..Len(list)}

---------------------------------------------------------------------------
(* SpecMerge: merge_papers applied to any existing list and any batch      *)

InitMerge ==
    /\ feed = NoFeed
    /\ file = NoFile
    /\ now = Today
    /\ pc = "call"
    /\ qi = 0
    /\ response = NoResponse
    /\ papers = <<>>
    /\ all_new_papers \in ListsUpTo(MergeUniverse, MaxCallRecords)
    /\ existing_data \in
           [lastUpdated : {""},
            papers : ListsUpTo(MergeUniverse,
                               MaxCallRecords - Len(all_new_papers))]
    /\ merged_papers = <<>>
    /\ saves = 0
    /\ hist = NoHist

CallMerge ==
    /\ UNCHANGED feed
    /\ pc = "call"
    /\ merged_papers' = merge_papers(existing_data.papers, all_new_papers)
    /\ pc' = "returned"
    /\ UNCHANGED <<file, now, qi, response, papers, all_new_papers,
                   existing_data, saves, hist>>

NextMerge == CallMerge

SpecMerge == InitMerge /\ [][NextMerge]_vars

---------------------------------------------------------------------------
(* SpecRuns: runs of main one after the other, starting without a catalog  *)
(* or with an empty one; what the connectors and the relevance filter      *)
(* collected (lines 342-364) is any batch                                  *)

InitRuns ==
    /\ feed = NoFeed
    /\ file \in {NoFile, StoredFile(EmptyCatalog)}
    /\ now = Today
    /\ pc = "idle"
    /\ qi = 0
    /\ response = NoResponse
    /\ papers = <<>>
    /\ all_new_papers = <<>>
    /\ existing_data = EmptyCatalog
    /\ merged_papers = <<>>
    /\ saves = 0
    /\ hist = NoHist

Collected(batch) ==
    /\ UNCHANGED feed
    /\ pc \in {"idle", "done"}
    /\ all_new_papers' = batch
    /\ saves' = 0
    /\ hist' = NoHist
    /\ pc' = "load"
    /\ UNCHANGED <<file, now, qi, response, papers, existing_data,
                   merged_papers>>

NextRuns ==
    \/ \E batch \in ListsUpTo(MergeUniverse, MaxRunBatch) : Collected(batch)
    \/ Load
    \/ Merge
    \/ Save

SpecRuns == InitRuns /\ [][NextRuns]_vars

---------------------------------------------------------------------------
(* Entries and responses the connectors are exercised with                 *)

ArxivEntry(id, title, authors, summary, published) ==
    [id |-> id, title |-> title, authors |-> authors, summary |-> summary,
     published |-> published]

\* two recent relevant entries, an irrelevant one, one without id element,
\* one whose id element is empty, one with an unparsable date, one older than
\* the lookback window
AE1 == ArxivEntry(Text("http://arxiv.org/abs/2401.00001v1"),
                  Text("Sparse Autoencoders\n find features"),
                  <<Text("A. Author"), Text("B. Writer")>>,
                  Text("We study superposition."),
                  Text("2024-01-15T10:00:00Z"))
AE2 == ArxivEntry(Text("http://arxiv.org/abs/2401.00002v1"),
                  Text("A survey of circuits in transformer models"),
                  <<Text("C. Third")>>,
                  Text("Overview."),
                  Text("2024-01-15T11:00:00Z"))
AE3 == ArxivEntry(Text("http://arxiv.org/abs/2401.00003v1"),
                  Text("Cooking with gas"), <<Text("D. Cook")>>,
                  Text("Recipes."), Text("2024-01-20T09:00:00Z"))
AE4 == ArxivEntry(Absent, Text("No id"), <<>>, Absent, Absent)
AE5 == ArxivEntry(Empty, Text("Empty id"), <<>>, Absent, Absent)
AE6 == ArxivEntry(Text("http://arxiv.org/abs/2401.00006v1"),
                  Text("Logit lens"), <<>>, Absent, Text("yesterday"))
AE7 == ArxivEntry(Text("http://arxiv.org/abs/hep-th/9901001v2"),
                  Text("Old transformer circuit"), <<>>, Absent,
                  Text("2023-11-01T00:00:00Z"))
\* an entry without published element, and one whose published text is a date
\* written without leading zeros
AE8 == ArxivEntry(Text("http://arxiv.org/abs/2401.00008v1"),
                  Text("Activation patching"), <<>>, Absent, Absent)
AE9 == ArxivEntry(Text("http://arxiv.org/abs/2401.00009v1"),
                  Text("Crosscoder"), <<>>, Absent, Text("2024-1-20"))

SSEntry(title, publicationDate, externalIds, authors, abstract, url, paperId) ==
    [is_dict |-> TRUE, title |-> title, publicationDate |-> publicationDate,
     externalIds |-> externalIds, authors |-> authors, abstract |-> abstract,
     url |-> url, paperId |-> paperId]

\* an element of data that is no object
NotADict ==
    [is_dict |-> FALSE, title |-> Absent, publicationDate |-> Absent,
     externalIds |-> Absent, authors |-> <<>>, abstract |-> Absent,
     url |-> Absent, paperId |-> Absent]

\* two relevant entries (the second without url), an entry arXiv has too, one
\* without publication date, one whose paperId is null
SE1 == SSEntry(Text("Mechanistic interpretability of LLM"), Text("2024-01-20"),
               Text(""), <<"E. Fifth">>, Text("Monosemantic features."),
               Text("https://www.semanticscholar.org/paper/abc"), Text("abc123"))
SE2 == SSEntry(Text("Transcoder"), Text("2024-01-15"), Absent, <<>>, Absent,
               Absent, Text("0123456789abcdefghijKLMNOP"))
SE3 == SSEntry(Text("Sparse Autoencoders find features"), Text("2024-01-15"),
               Text("2401.00001"), <<"A. Author">>, Absent,
               Text("https://www.semanticscholar.org/paper/def"), Text("def456"))
SE4 == SSEntry(Text("Crosscoder"), Empty, Text(""), <<>>, Absent, Absent,
               Text("ghi789"))
SE5 == SSEntry(Text("Causal tracing"), Text("2024-01-16"), Text(""), <<>>,
               Absent, Absent, Empty)

Response(kind, entries) == [kind |-> kind, entries |-> entries]

---------------------------------------------------------------------------
(* Spec: runs of main, one after the other, against a network that answers *)
(* every request in any of the ways below                                  *)

ArxivResponses ==
    {Response("unreachable", <<>>), Response("timeout", <<>>),
     Response("malformed", <<>>),
     Response("ok", <<AE1>>), Response("ok", <<AE5, AE3, AE2>>)}

SSResponses ==
    {Response("unreachable", <<>>), Response("timeout", <<>>),
     Response("malformed", <<>>), Response("not_object", <<>>),
     Response("ok", <<SE2, NotADict, SE1>>)}

\* days the clock may advance
MaxTicks == 1

\* fetch_arxiv_papers(resp, d) and fetch_semantic_scholar(resp) for each
\* answer and each day of the clock, evaluated once
ArxivAnswers ==
    [resp \in ArxivResponses |->
        [d \in Today..(Today + MaxTicks) |-> fetch_arxiv_papers(resp, d)]]

SSAnswers == [resp \in SSResponses |-> fetch_semantic_scholar(resp)]

\* the filter as it would be if it kept every paper
relevant_of_everything(list) == list

\* [p for p in papers if is_relevant_paper(p)]
relevant_of(list) == SelectSeq(list, is_relevant_paper)

\* the relevant papers of each answer that is a list
ArxivRelevant ==
    [resp \in ArxivResponses |->
        [d \in Today..(Today + MaxTicks) |->
            relevant_of(ArxivAnswers[resp][d].value)]]

SSRelevant == [resp \in SSResponses |-> relevant_of(SSAnswers[resp].value)]

\* Stand-ins for len(ARXIV_QUERIES) = 24 and len(SEMANTIC_SCHOLAR_QUERIES)
\* = 3: the runs of the model issue this many queries to each source.
NumArxivQueries == 2
NumSSQueries == 1

\* all_new_papers = [] of a fresh process
Start ==
    /\ UNCHANGED feed
    /\ pc \in {"idle", "done", "aborted"}
    /\ pc' = "arxiv"
    /\ qi' = 0
    /\ all_new_papers' = <<>>
    /\ response' = NoResponse
    /\ papers' = <<>>
    /\ existing_data' = EmptyCatalog
    /\ merged_papers' = <<>>
    /\ saves' = 0
    /\ hist' = NoHist
    /\ UNCHANGED <<file, now>>

Failed(resp) == resp.kind \in {"unreachable", "timeout"}

\* one pass of the loop over ARXIV_QUERIES (lines 346-352), resp being the
\* answer to the request; an exception fetch_arxiv_papers lets out ends the
\* process, main having no handler
FetchArxiv(resp) ==
    /\ UNCHANGED feed
    /\ pc = "arxiv"
    /\ response' = resp
    /\ hist' = [hist EXCEPT !.requests = @ + 1,
                            !.arxiv_failed = @ + (IF Failed(resp) THEN 1 ELSE 0),
                            !.events = Append(@, "query"),
                            !.fetched = @ \o ArxivAnswers[resp][now].value]
    /\ LET r == ArxivAnswers[resp][now]
       IN  IF r.raised
           THEN /\ pc' = "aborted"
                /\ UNCHANGED <<papers, all_new_papers, qi>>
           ELSE /\ papers' = r.value
                /\ all_new_papers' = all_new_papers \o ArxivRelevant[resp][now]
                /\ qi' = IF qi + 1 = NumArxivQueries THEN 0 ELSE qi + 1
                /\ pc' = IF qi + 1 = NumArxivQueries THEN "ss" ELSE "arxiv"
    /\ UNCHANGED <<file, now, existing_data, merged_papers, saves>>

\* one pass of the loop over SEMANTIC_SCHOLAR_QUERIES (lines 356-362)
FetchSS(resp) ==
    /\ UNCHANGED feed
    /\ pc = "ss"
    /\ response' = resp
    /\ hist' = [hist EXCEPT !.requests = @ + 1,
                            !.ss_failed = @ + (IF Failed(resp) THEN 1 ELSE 0),
                            !.events = Append(@, "query"),
                            !.fetched = @ \o SSAnswers[resp].value]
    /\ LET r == SSAnswers[resp]
       IN  IF r.raised
           THEN /\ pc' = "aborted"
                /\ UNCHANGED <<papers, all_new_papers, qi>>
           ELSE /\ papers' = r.value
                /\ all_new_papers' = all_new_papers \o SSRelevant[resp]
                /\ qi' = IF qi + 1 = NumSSQueries THEN 0 ELSE qi + 1
                /\ pc' = IF qi + 1 = NumSSQueries THEN "load" ELSE "ss"
    /\ UNCHANGED <<file, now, existing_data, merged_papers, saves>>

\* midnight passes
Tick ==
    /\ UNCHANGED feed
    /\ now < Today + MaxTicks
    /\ now' = now + 1
    /\ UNCHANGED <<file, pc, qi, response, papers, all_new_papers,
                   existing_data, merged_papers, saves, hist>>

Init ==
    /\ feed = NoFeed
    /\ file \in {NoFile, StoredFile(EmptyCatalog)}
    /\ now = Today
    /\ pc = "idle"
    /\ qi = 0
    /\ response = NoResponse
    /\ papers = <<>>
    /\ all_new_papers = <<>>
    /\ existing_data = EmptyCatalog
    /\ merged_papers = <<>>
    /\ saves = 0
    /\ hist = NoHist

Next ==
    \/ Start
    \/ \E resp \in ArxivResponses : FetchArxiv(resp)
    \/ \E resp \in SSResponses : FetchSS(resp)
    \/ Load
    \/ Merge
    \/ Save
    \/ Tick

Spec == Init /\ [][Next]_vars

---------------------------------------------------------------------------
(* SpecConn: one call of a connector on any response                       *)

ArxivEntries == {AE1, AE2, AE4, AE5, AE6, AE7, AE8, AE9}
SSEntries == {SE1, SE2, SE3, SE4, SE5, NotADict}

\* entries of one response
MaxEntries == 3

InitConn ==
    /\ feed = NoFeed
    /\ file = NoFile
    /\ now = Today
    /\ \/ /\ pc = "call_arxiv"
          /\ \/ response \in {Response(k, <<>>) :
                                  k \in {"unreachable", "timeout", "malformed"}}
             \/ response \in {Response("ok", es) :
                                  es \in ListsUpTo(ArxivEntries, MaxEntries)}
       \/ /\ pc = "call_ss"
          /\ \/ response \in {Response(k, <<>>) :
                                  k \in {"unreachable", "timeout", "malformed",
                                         "not_object"}}
             \/ response \in {Response("ok", es) :
                                  es \in ListsUpTo(SSEntries, MaxEntries)}
    /\ qi = 0
    /\ papers = <<>>
    /\ all_new_papers = <<>>
    /\ existing_data = EmptyCatalog
    /\ merged_papers = <<>>
    /\ saves = 0
    /\ hist = NoHist

CallArxiv ==
    /\ UNCHANGED feed
    /\ pc = "call_arxiv"
    /\ LET r == fetch_arxiv_papers(response, now)
       IN  /\ papers' = r.value
           /\ pc' = IF r.raised THEN "raised_arxiv" ELSE "returned_arxiv"
    /\ UNCHANGED <<file, now, qi, response, all_new_papers, existing_data,
                   merged_papers, saves, hist>>

CallSS ==
    /\ UNCHANGED feed
    /\ pc = "call_ss"
    /\ LET r == fetch_semantic_scholar(response)
       IN  /\ papers' = r.value
           /\ pc' = IF r.raised THEN "raised_ss" ELSE "returned_ss"
    /\ UNCHANGED <<file, now, qi, response, all_new_papers, existing_data,
                   merged_papers, saves, hist>>

NextConn == CallArxiv \/ CallSS

SpecConn == InitConn /\ [][NextConn]_vars

---------------------------------------------------------------------------
(* SpecTexts: one query of main whose answer is a feed of one entry, over   *)
(* titles and abstracts that exercise the relevance terms and the tag table *)

Titles ==
    {"Sparse Autoencoders", "Understanding", "GPT", "Cooking",
     "A Review of Vision, Safety, Theory", "sparse", "Logit Lens",
     "Circuit probe steering", "SAE"}

Abstracts ==
    {"", "autoencoder", "neural", "We explain features",
     "Protein reasoning; image features in superposition",
     "Attention head circuit", "Saes cot"}

TextEntry(t, b) ==
    ArxivEntry(Text("http://arxiv.org/abs/2401.00001v1"), Text(t), <<>>,
               IF b = "" THEN Absent ELSE Text(b), Absent)

InitTexts ==
    /\ feed = NoFeed
    /\ file = NoFile
    /\ now = Today
    /\ pc = "call_arxiv"
    /\ response \in {Response("ok", <<TextEntry(t, b)>>) :
                         t \in Titles, b \in Abstracts}
    /\ qi = 0
    /\ papers = <<>>
    /\ all_new_papers = <<>>
    /\ existing_data = EmptyCatalog
    /\ merged_papers = <<>>
    /\ saves = 0
    /\ hist = NoHist

\* relevant = [p for p in papers if is_relevant_paper(p)];
\* all_new_papers.extend(relevant)
Filter ==
    /\ UNCHANGED feed
    /\ pc = "returned_arxiv"
    /\ all_new_papers' = all_new_papers \o relevant_of(papers)
    /\ pc' = "filtered"
    /\ UNCHANGED <<file, now, qi, response, papers, existing_data,
                   merged_papers, saves, hist>>

NextTexts == CallArxiv \/ Filter

SpecTexts == InitTexts /\ [][NextTexts]_vars

---------------------------------------------------------------------------
(* generate_rss.py: the feed publisher                                     *)

\* html.escape(str(text)): & first, then < > " '
escape_xml(text) ==
    replace_char(
        replace_char(
            replace_char(
                replace_char(replace_char(text, "&", "&amp;"), "<", "&lt;"),
                ">", "&gt;"),
            "\"", "&quot;"),
        "'", "&#x27;")

\* papers = data.get('papers', [])[:30]
FEED_LIMIT == 30

WeekdayNames == <<"Mon", "Tue", "Wed", "Thu", "Fri", "Sat", "Sun">>

MonthNames ==
    <<"Jan", "Feb", "Mar", "Apr", "May", "Jun", "Jul", "Aug", "Sep", "Oct",
      "Nov", "Dec">>

\* day.strftime('%a, %d %b %Y 00:00:00 +0000'); day ordinal 0 is a Thursday
rss_strftime(day) ==
    LET c == civil_from_days(day)
    IN  WeekdayNames[((day + 3) % 7) + 1] \o ", " \o zero_pad(c[3], 2) \o " "
        \o MonthNames[c[2]] \o " " \o zero_pad(c[1], 4) \o " 00:00:00 +0000"

\* the try/except around strptime: the date of text, or fallback
rss_date_of(text, fallback) ==
    IF strptime(text) # NoDate THEN rss_strftime(strptime(text)) ELSE fallback

\* the description of one item (lines 63-67)
description_of(paper) ==
    "<p><strong>Authors:</strong> " \o escape_xml(paper.authors) \o "</p>"
    \o (IF escape_xml(paper.abstract) # ""
        THEN "<p>" \o escape_xml(paper.abstract) \o "</p>" ELSE "")
    \o (IF paper.tags # <<>>
        THEN "<p><strong>Tags:</strong> " \o join(", ", paper.tags) \o "</p>"
        ELSE "")

\* the <item> of one paper: the text put in each of its elements, the
\* description being what stands inside the CDATA section
rss_item(paper, rss_date) ==
    [title |-> escape_xml(paper.title),
     link |-> escape_xml(paper.url),
     description |-> description_of(paper),
     pubDate |-> rss_date_of(paper.date, rss_date),
     guid |-> escape_xml(paper.url)]

\* the document as it would be without the slice of line 25
rss_document_unlimited(data, today) ==
    LET rss_date == rss_date_of(data.lastUpdated, rss_strftime(today))
    IN  [exists |-> TRUE,
         lastBuildDate |-> rss_date,
         items |-> [k \in 1..Len(data.papers) |->
                       rss_item(data.papers[k], rss_date)]]

\* the document generate_rss builds from the stored dict
rss_document(data, today) ==
    LET shown == Take(data.papers, FEED_LIMIT)
        rss_date == rss_date_of(data.lastUpdated, rss_strftime(today))
    IN  [exists |-> TRUE,
         lastBuildDate |-> rss_date,
         items |-> [k \in 1..Len(shown) |-> rss_item(shown[k], rss_date)]]

\* generate_rss(): open(PAPERS_FILE) raises when there is no catalog file
generate_rss ==
    /\ pc = "call_rss"
    /\ IF file.exists
       THEN /\ feed' = rss_document(file.data, now)
            /\ pc' = "written"
       ELSE /\ pc' = "raised_rss"
            /\ UNCHANGED feed
    /\ UNCHANGED <<file, now, qi, response, papers, all_new_papers,
                   existing_data, merged_papers, saves, hist>>

---------------------------------------------------------------------------
(* SpecFeed: one call of generate_rss on a stored catalog                  *)

\* a record as the pipeline stores it, the i-th most recent
FeedRecord(i) ==
    Paper("arxiv-" \o zero_pad(i, 2), "Paper " \o zero_pad(i, 2), "A. Author",
          strftime(Today - i), "https://arxiv.org/abs/" \o zero_pad(i, 2), "",
          <<>>, "arXiv")

\* a record edited by hand, with reserved characters in every text field
CuratedRecord(i) ==
    [Paper("manual-1", "Q&A: <b>\"x\"</b>", "O'Neil & Co",
           strftime(Today - i), "https://x.org/?a=1&b=2", "a < b > c",
           <<"R&D", "<i>">>, "manual") EXCEPT !.featured = TRUE]

\* n records in descending date order, the v-th of them curated (none when
\* v = 0)
FeedCatalog(n, v) ==
    [i \in 1..n |-> IF i = v THEN CuratedRecord(i) ELSE FeedRecord(i)]

\* records of the largest stored catalog
MaxCatalog == 31

InitFeed ==
    /\ feed = NoFeed
    /\ \/ file = NoFile
       \/ file \in {StoredFile([lastUpdated |-> lu,
                                papers |-> FeedCatalog(n, v)]) :
                        lu \in {"", strftime(Today - 1)},
                        n \in 0..MaxCatalog, v \in {0, 1, FEED_LIMIT, MaxCatalog}}
    /\ now = Today
    /\ pc = "call_rss"
    /\ qi = 0
    /\ response = NoResponse
    /\ papers = <<>>
    /\ all_new_papers = <<>>
    /\ existing_data = EmptyCatalog
    /\ merged_papers = <<>>
    /\ saves = 0
    /\ hist = NoHist

NextFeed == generate_rss

SpecFeed == InitFeed /\ [][NextFeed]_vars

---------------------------------------------------------------------------
(* SpecTwo: two runs of main on the same catalog file, each past its fetch *)
(* loops, their steps interleaved in any order. pc, all_new_papers,        *)
(* existing_data, merged_papers and hist hold one value per process; hist  *)
(* records what the process loaded and saved and how many saves had been   *)
(* made when it did (saves counts the saves of both).                      *)

Procs == {1, 2}

NoTwoHist ==
    [loaded |-> EmptyCatalog, loaded_at |-> 0, saved |-> EmptyCatalog,
     saved_at |-> 0]

\* existing_data = load_existing_papers(), in process p
LoadOf(p) ==
    /\ pc[p] = "load"
    /\ existing_data' = [existing_data EXCEPT ![p] = load_existing_papers]
    /\ hist' = [hist EXCEPT ![p].loaded = load_existing_papers,
                            ![p].loaded_at = saves]
    /\ pc' = [pc EXCEPT ![p] = "merge"]
    /\ UNCHANGED <<file, now, qi, response, papers, all_new_papers,
                   merged_papers, saves, feed>>

\* the merge and the two assignments to existing_data, in process p
MergeOf(p) ==
    /\ pc[p] = "merge"
    /\ merged_papers' =
           [merged_papers EXCEPT
                ![p] = merge_papers(existing_data[p].papers, all_new_papers[p])]
    /\ existing_data' =
           [existing_data EXCEPT ![p].papers = merged_papers'[p],
                                 ![p].lastUpdated = strftime(now)]
    /\ pc' = [pc EXCEPT ![p] = "save"]
    /\ UNCHANGED <<file, now, qi, response, papers, all_new_papers, saves,
                   hist, feed>>

\* save_papers as it would be if it merged into the file as it then is
SaveOf_merging(p) ==
    /\ pc[p] = "save"
    /\ file' = StoredFile(
                   [existing_data[p] EXCEPT
                        !.papers = merge_papers(load_existing_papers.papers,
                                                existing_data[p].papers)])
    /\ saves' = saves + 1
    /\ hist' = [hist EXCEPT ![p].saved = existing_data[p],
                            ![p].saved_at = saves + 1]
    /\ pc' = [pc EXCEPT ![p] = "done"]
    /\ UNCHANGED <<now, qi, response, papers, all_new_papers, existing_data,
                   merged_papers, feed>>

\* save_papers(existing_data), in process p: the file is overwritten
SaveOf(p) ==
    /\ pc[p] = "save"
    /\ file' = StoredFile(existing_data[p])
    /\ saves' = saves + 1
    /\ hist' = [hist EXCEPT ![p].saved = existing_data[p],
                            ![p].saved_at = saves + 1]
    /\ pc' = [pc EXCEPT ![p] = "done"]
    /\ UNCHANGED <<now, qi, response, papers, all_new_papers, existing_data,
                   merged_papers, feed>>

\* records of the batch of each of the two runs
MaxTwoBatch == 1

TwoUniverse == {R1, R2, R4}

InitTwo ==
    /\ feed = NoFeed
    /\ file \in {NoFile, StoredFile(EmptyCatalog),
                 StoredFile([lastUpdated |-> Day3, papers |-> <<R4>>])}
    /\ now = Today
    /\ pc = [p \in Procs |-> "load"]
    /\ qi = 0
    /\ response = NoResponse
    /\ papers = <<>>
    /\ all_new_papers \in [Procs -> ListsUpTo(TwoUniverse, MaxTwoBatch)]
    /\ existing_data = [p \in Procs |-> EmptyCatalog]
    /\ merged_papers = [p \in Procs |-> <<>>]
    /\ saves = 0
    /\ hist = [p \in Procs |-> NoTwoHist]

NextTwo == \E p \in Procs : LoadOf(p) \/ MergeOf(p) \/ SaveOf(p)

SpecTwo == InitTwo /\ [][NextTwo]_vars

---------------------------------------------------------------------------
(* Claims on the merge                                                     *)

\* the normalized title prefix of the Data Model: lower-cased, stripped,
\* cut to 100 characters
NormalizedTitlePrefix(p) == Prefix(strip(lower(p.title)), 100)

NoDuplicates(list) ==
    \A i, j \in 1..Len(list) :
        i # j =>
            /\ list[i].id # list[j].id
            /\ list[i].url # "" => list[i].url # list[j].url
            /\ NormalizedTitlePrefix(list[i]) # NormalizedTitlePrefix(list[j])

\* C1: starting without a catalog or with an empty one, after any sequence
\* of runs no two records of the catalog share an id, a non-empty url or a
\* normalized title prefix.
C1_CatalogHasNoDuplicates == NoDuplicates(file.data.papers)

\* a run rejected a candidate and the catalog holds three records or more
C1_Witness ==
    /\ pc = "done"
    /\ Len(file.data.papers) >= 3
    /\ \E k \in 1..Len(all_new_papers) :
           all_new_papers[k] \notin Range(file.data.papers)

OfDate(list, d) == SelectSeq(list, LAMBDA p : p.date = d)

RECURSIVE FirstOccurrences(_)
FirstOccurrences(list) ==
    IF list = <<>> THEN <<>>
    ELSE <<Head(list)>>
         \o FirstOccurrences(SelectSeq(Tail(list), LAMBDA p : p # Head(list)))

\* the records of new that the call added, in batch order
NewlyAccepted(existing, new, merged) ==
    FirstOccurrences(
        SelectSeq(new, LAMBDA p : p \in Range(merged) /\ p \notin Range(existing)))

DescendingByDate(list) ==
    \A i, j \in 1..Len(list) :
        i < j => strptime(list[i].date) >= strptime(list[j].date)

\* C2: for any existing list and any batch the list merge_papers returns is
\* in descending order of date, and the records of one date are the existing
\* ones in their order in the existing list, then the newly accepted ones in
\* batch order.
C2_SortedAndStable ==
    pc = "returned" =>
        /\ DescendingByDate(merged_papers)
        /\ \A d \in {Day1, Day2, Day3} :
               OfDate(merged_papers, d) =
                   OfDate(existing_data.papers, d)
                   \o OfDate(NewlyAccepted(existing_data.papers, all_new_papers,
                                           merged_papers), d)

\* two existing records of one date are joined by a new one of that date,
\* and the sort moved a record
C2_Witness ==
    /\ pc = "returned"
    /\ \E d \in {Day1, Day2, Day3} :
           /\ Len(OfDate(existing_data.papers, d)) >= 2
           /\ Len(OfDate(NewlyAccepted(existing_data.papers, all_new_papers,
                                       merged_papers), d)) >= 1
    /\ merged_papers #
           existing_data.papers
           \o NewlyAccepted(existing_data.papers, all_new_papers, merged_papers)

\* the records candidate k meets: the catalog before the merge and the
\* candidates accepted before it
MetBy(existing, new, merged, k) ==
    Range(existing) \cup {new[j] : j \in {m \in 1..(k - 1) : new[m] \in Range(merged)}}

\* C3: a candidate whose url is empty is accepted whenever its id and its
\* normalized title prefix are not already present, whatever urls the catalog
\* and the candidates accepted before it have.
C3_EmptyUrlIsNoDuplicate ==
    pc = "save" =>
        \A k \in 1..Len(all_new_papers) :
            LET p   == all_new_papers[k]
                met == MetBy(file.data.papers, all_new_papers, merged_papers, k)
            IN  (/\ p.url = ""
                 /\ \A q \in met : q.id # p.id
                 /\ \A q \in met :
                        NormalizedTitlePrefix(q) # NormalizedTitlePrefix(p))
                => p \in Range(merged_papers)

\* C4: a merge whose candidates all have an id the catalog already holds
\* (the empty batch included) returns the catalog unchanged in content and
\* in order.
C4_KnownIdsChangeNothing ==
    pc = "save" =>
        ((\A k \in 1..Len(all_new_papers) :
              \E i \in 1..Len(file.data.papers) :
                  file.data.papers[i].id = all_new_papers[k].id)
         => merged_papers = file.data.papers)

\* a candidate that differs from the record holding its id is merged into a
\* catalog of two records or more
C4_Witness ==
    /\ pc = "save"
    /\ Len(file.data.papers) >= 2
    /\ all_new_papers # <<>>
    /\ \A k \in 1..Len(all_new_papers) :
           /\ all_new_papers[k].id \in ids_of(file.data.papers)
           /\ all_new_papers[k] \notin Range(file.data.papers)

Collides(p, records) ==
    \E q \in records :
        \/ q.id = p.id
        \/ q.url = p.url
        \/ NormalizedTitlePrefix(q) = NormalizedTitlePrefix(p)

\* two candidates i < j of one batch with different id and url and the same
\* normalized title prefix
SameTitlePair(new, i, j) ==
    /\ i < j
    /\ new[i].id # new[j].id
    /\ new[i].url # new[j].url
    /\ NormalizedTitlePrefix(new[i]) = NormalizedTitlePrefix(new[j])

\* C5 as stated: of two such candidates that do not collide with the existing
\* catalog, only the first is retained.
C5_FirstOfPairRetained ==
    pc = "returned" =>
        \A i, j \in 1..Len(all_new_papers) :
            (/\ SameTitlePair(all_new_papers, i, j)
             /\ ~Collides(all_new_papers[i], Range(existing_data.papers))
             /\ ~Collides(all_new_papers[j], Range(existing_data.papers)))
            => /\ all_new_papers[i] \in Range(merged_papers)
               /\ all_new_papers[j] \notin Range(merged_papers)

\* C5 amended: ... and the first of which does not collide with a candidate
\* accepted before it either, only the first is retained.
C5_FirstOfPairRetainedUnlessRejected ==
    pc = "returned" =>
        \A i, j \in 1..Len(all_new_papers) :
            (/\ SameTitlePair(all_new_papers, i, j)
             /\ ~Collides(all_new_papers[i],
                          MetBy(existing_data.papers, all_new_papers,
                                merged_papers, i))
             /\ ~Collides(all_new_papers[j], Range(existing_data.papers)))
            => /\ all_new_papers[i] \in Range(merged_papers)
               /\ all_new_papers[j] \notin Range(merged_papers)

\* such a pair is merged into a catalog that is not empty, behind a candidate
\* that was accepted
C5_Witness ==
    /\ pc = "returned"
    /\ existing_data.papers # <<>>
    /\ \E i, j \in 2..Len(all_new_papers) :
           /\ SameTitlePair(all_new_papers, i, j)
           /\ all_new_papers[1] \in Range(merged_papers)
           /\ ~Collides(all_new_papers[i],
                        MetBy(existing_data.papers, all_new_papers,
                              merged_papers, i))
           /\ ~Collides(all_new_papers[j], Range(existing_data.papers))


---------------------------------------------------------------------------
(* Claims on whole runs (Spec) and on the connectors (SpecConn)            *)

\* list holds a record equal, field by field, to p
HasRecord(list, p) == \E j \in 1..Len(list) : list[j] = p

\* C6: every record of the catalog before a run is in the catalog after it
\* with every field unchanged: whenever the stored catalog changes, each
\* record it held is still in it, equal field by field.
C6_RecordsAreKept ==
    [][\A i \in 1..Len(file.data.papers) :
           HasRecord(file'.data.papers, file.data.papers[i])]_vars

\* a completed run that loaded a catalog with records, skipped a candidate as
\* a duplicate and added another
C6_Witness ==
    /\ pc = "done"
    /\ hist.loaded.papers # <<>>
    /\ Len(file.data.papers) > Len(hist.loaded.papers)
    /\ Len(file.data.papers) < Len(hist.loaded.papers) + Len(all_new_papers)
    /\ \A i \in 1..Len(hist.loaded.papers) :
           HasRecord(file.data.papers, hist.loaded.papers[i])

\* C7: after every run that completes, the stored lastUpdated is the date of
\* that run (the date main reads at line 375), whether or not the run added a
\* record.
C7_LastUpdatedIsRunDate ==
    pc = "done" =>
        /\ file.exists
        /\ file.data.lastUpdated = strftime(hist.run_date)
        /\ strptime(file.data.lastUpdated) = hist.run_date

\* a completed run that added nothing to a catalog dated an earlier day
C7_Witness ==
    /\ pc = "done"
    /\ hist.loaded.papers # <<>>
    /\ file.data.papers = hist.loaded.papers
    /\ hist.loaded.lastUpdated # ""
    /\ strptime(hist.loaded.lastUpdated) < hist.run_date
    /\ file.data.lastUpdated = strftime(hist.run_date)

\* the answers to a request that are transport errors
TransportError(resp) == resp.kind \in {"unreachable", "timeout", "malformed"}

\* C8: a transport error on one query (the source unreachable, a timeout, a
\* malformed body) never leaves the connector and never aborts the run: after
\* a request answered that way the run has not aborted and the connector
\* gave the empty list.
C8_TransportErrorsAreContained ==
    TransportError(response) => pc # "aborted" /\ papers = <<>>

\* every request of the run to one source failed as unreachable or timed out
SourceDown ==
    \/ hist.arxiv_failed = NumArxivQueries
    \/ hist.ss_failed = NumSSQueries

\* C9: when every request to one source (or to both) fails as unreachable or
\* timed out, the run goes on with the queries that remain, ends, and stores
\* the catalog exactly once, holding the loaded records merged with what the
\* other source gave: such a run never aborts, and once it has ended all the
\* queries were issued and the file was written once with that merge.
C9_SourceDownIsTolerated ==
    SourceDown =>
        /\ pc # "aborted"
        /\ pc = "done" =>
               /\ hist.requests = NumArxivQueries + NumSSQueries
               /\ saves = 1
               /\ file.data.papers =
                      merge_papers(hist.loaded.papers, all_new_papers)

\* the records of the entries whose normalization gave one, in the order of
\* the entries
Normalized(results) ==
    LET kept == SelectSeq(results, LAMBDA r : r.status = "ok")
    IN  [k \in 1..Len(kept) |-> kept[k].paper]

\* what the body of the connector's loop makes of each entry of response
EntryResults ==
    [i \in 1..Len(response.entries) |->
        IF pc = "returned_arxiv"
        THEN arxiv_entry(response.entries[i], now)
        ELSE ss_entry(response.entries[i])]

\* C10: within a valid response, an entry whose normalization fails is
\* skipped and its siblings are still processed and returned in their
\* original relative order: the connector returns exactly the records of the
\* entries that normalize, in the order of the entries.
C10_FailedEntryIsSkipped ==
    pc \in {"returned_arxiv", "returned_ss"} /\ response.kind = "ok" =>
        papers = Normalized(EntryResults)

\* a feed of three entries, the second failing between two that normalize
C10_Witness ==
    /\ pc = "returned_arxiv"
    /\ Len(response.entries) = 3
    /\ EntryResults[1].status = "ok"
    /\ EntryResults[2].status = "error"
    /\ EntryResults[3].status = "ok"
    /\ EntryResults[1].paper # EntryResults[3].paper
    /\ papers = <<EntryResults[1].paper, EntryResults[3].paper>>


---------------------------------------------------------------------------
(* Claims on the first run, the connectors' records, relevance and tags    *)

\* C11: load gives an empty catalog, not an error, when there is no catalog
\* file, so a first run started without the file completes and stores a
\* catalog whose papers are exactly the records that run accepted: a run that
\* found no file never aborts at the load, loaded the empty catalog, and once
\* it has ended the file exists and holds the batch merged into nothing.
C11_FirstRunBootstraps ==
    "load" \in Range(hist.events) /\ ~hist.found =>
        /\ pc # "aborted"
        /\ hist.loaded = EmptyCatalog
        /\ pc = "done" =>
               /\ file.exists
               /\ file.data.papers = merge_papers(<<>>, all_new_papers)
               /\ Range(file.data.papers) \subseteq Range(all_new_papers)
               /\ \A i \in 1..Len(all_new_papers) :
                      \/ HasRecord(file.data.papers, all_new_papers[i])
                      \/ Collides(all_new_papers[i], Range(file.data.papers))

\* a first run without a file that stored two records and rejected none
C11_Witness ==
    /\ pc = "done"
    /\ ~hist.found
    /\ file.exists
    /\ Len(all_new_papers) = 2
    /\ Len(file.data.papers) = 2

\* the labels, in the order of the table, of the entries of tag_keywords one
\* of whose keywords occurs in text
LabelsIn(text) ==
    LET hit == SelectSeq(tag_keywords,
                         LAMBDA e : \E k \in 1..Len(e[2]) :
                                        Contains(text, e[2][k]))
    IN  [k \in 1..Len(hit) |-> hit[k][1]]

\* a connector has returned a list
Returned == pc \in {"returned_arxiv", "returned_ss"}

IsoDate(s) ==
    /\ Len(s) = 10
    /\ \A i \in {1, 2, 3, 4, 6, 7, 9, 10} : is_digit(CharAt(s, i))
    /\ CharAt(s, 5) = "-" /\ CharAt(s, 8) = "-"
    /\ strptime(s) # NoDate

\* entry i of the response carries no timestamp
OmitsTimestamp(i) ==
    IF pc = "returned_arxiv"
    THEN response.entries[i].published.tag # "text"
    ELSE /\ response.entries[i].is_dict
         /\ response.entries[i].publicationDate.tag # "text"

\* what the connector makes of entry i when the current date is put in the
\* place of its timestamp
DatedToday(i) ==
    IF pc = "returned_arxiv"
    THEN arxiv_entry([response.entries[i] EXCEPT
                          !.published = Text(strftime(now))], now)
    ELSE ss_entry([response.entries[i] EXCEPT
                       !.publicationDate = Text(strftime(now))])

\* C13: every record a connector returns has its date in YYYY-MM-DD form, and
\* an entry whose timestamp the source omits is still returned, with the
\* current date as its date.
C13_DatesNormalized ==
    Returned /\ response.kind = "ok" =>
        /\ \A k \in 1..Len(papers) : IsoDate(papers[k].date)
        /\ \A i \in 1..Len(response.entries) :
               OmitsTimestamp(i) /\ DatedToday(i).status = "ok" =>
                   HasRecord(papers, DatedToday(i).paper)

\* text holds one of the terms
HasTerm(terms, text) == \E k \in 1..Len(terms) : Contains(text, terms[k])

\* the lower-cased title and abstract of p, joined by a space
TextOf(p) == lower(p.title \o " " \o p.abstract)

\* C14: a record is relevant exactly when its lower-cased title-plus-abstract
\* text holds a strong-indicator term, or holds an interpretability-concept
\* term and an ML-context term; a strong-indicator term suffices without any
\* ML-context term.
C14_RelevantExactlyWhen ==
    pc = "filtered" =>
        \A i \in 1..Len(papers) :
            HasRecord(all_new_papers, papers[i])
            <=> \/ HasTerm(strong_terms, TextOf(papers[i]))
                \/ /\ HasTerm(interp_terms, TextOf(papers[i]))
                   /\ HasTerm(ml_terms, TextOf(papers[i]))

\* a record kept for a strong-indicator term alone
C14_Witness ==
    /\ pc = "filtered"
    /\ Len(papers) = 1
    /\ HasTerm(strong_terms, TextOf(papers[1]))
    /\ ~HasTerm(ml_terms, TextOf(papers[1]))
    /\ ~HasTerm(interp_terms, TextOf(papers[1]))
    /\ all_new_papers = papers

\* list holds no element twice
NoRepeat(list) ==
    \A i, j \in 1..Len(list) : list[i] = list[j] => i = j

\* C15: generate_tags returns, in the order of the table and not of the
\* text, the labels of the table entries with a keyword occurring in the
\* lower-cased combined text, cut to the first 6, with no label repeated.
C15_TagsInTableOrder ==
    pc \in {"returned_arxiv", "filtered"} =>
        \A i \in 1..Len(papers) :
            /\ papers[i].tags = Take(LabelsIn(TextOf(papers[i])), 6)
            /\ Len(papers[i].tags) <= 6
            /\ NoRepeat(papers[i].tags)

\* a text with more than 6 matching labels whose first keyword in the text
\* ('review') belongs to a later table entry than a keyword after it
C15_Witness ==
    /\ pc = "returned_arxiv"
    /\ Len(papers) = 1
    /\ Len(LabelsIn(TextOf(papers[1]))) > 6
    /\ papers[1].tags =
           <<"superposition", "features", "safety", "survey", "theory",
             "vision">>


---------------------------------------------------------------------------
(* Claims on the feed publisher (SpecFeed)                                 *)

\* C16: the feed holds exactly one item for each of the first min(30, n)
\* records of an n-record catalog, in the catalog's order, and no item for a
\* later record; the guid of each item equals its link.
C16_FirstThirtyInOrder ==
    pc = "written" =>
        LET catalog == file.data.papers
        IN  /\ feed.exists
            /\ Len(feed.items) = Min(FEED_LIMIT, Len(catalog))
            /\ \A k \in 1..Len(feed.items) :
                   /\ feed.items[k].title = escape_xml(catalog[k].title)
                   /\ feed.items[k].link = escape_xml(catalog[k].url)
                   /\ feed.items[k].guid = feed.items[k].link
            /\ \A j \in (FEED_LIMIT + 1)..Len(catalog) :
                   \A k \in 1..Len(feed.items) :
                       feed.items[k].link # escape_xml(catalog[j].url)

\* a catalog of more than 30 records published as 30 items
C16_Witness ==
    /\ pc = "written"
    /\ Len(file.data.papers) > FEED_LIMIT
    /\ Len(feed.items) = FEED_LIMIT
    /\ feed.items[FEED_LIMIT].guid
           = escape_xml(file.data.papers[FEED_LIMIT].url)

\* the description of an item when every field put in it, the tag labels
\* included, is escaped
EscapedDescription(paper) ==
    "<p><strong>Authors:</strong> " \o escape_xml(paper.authors) \o "</p>"
    \o (IF paper.abstract # ""
        THEN "<p>" \o escape_xml(paper.abstract) \o "</p>" ELSE "")
    \o (IF paper.tags # <<>>
        THEN "<p><strong>Tags:</strong> "
             \o join(", ", [k \in 1..Len(paper.tags) |->
                               escape_xml(paper.tags[k])])
             \o "</p>"
        ELSE "")

\* C17: every text field of a record put into the feed (title, url, authors,
\* abstract and each tag label) has the reserved characters escaped before
\* it is inserted.
C17_EveryFieldEscaped ==
    pc = "written" =>
        \A k \in 1..Len(feed.items) :
            /\ feed.items[k].title = escape_xml(file.data.papers[k].title)
            /\ feed.items[k].link = escape_xml(file.data.papers[k].url)
            /\ feed.items[k].description
                   = EscapedDescription(file.data.papers[k])


---------------------------------------------------------------------------
(* Claims on the life of the catalog in a run (Spec)                       *)

\* the number of times step e was taken in the run
Times(e) == Len(SelectSeq(hist.events, LAMBDA x : x = e))

\* the steps of a run that completes: every query, then load, merge, save
FullRun ==
    [k \in 1..(NumArxivQueries + NumSSQueries) |-> "query"]
    \o <<"load", "merge", "save">>

---------------------------------------------------------------------------
(* Claim on two runs at once (SpecTwo)                                     *)

\* both runs have ended
BothDone == \A p \in Procs : pc[p] = "done"

\* both runs loaded the catalog before either saved it
BothLoadedFirst == \A p \in Procs : hist[p].loaded_at = 0

\* the run that saved last
LastSaver == CHOOSE p \in Procs : hist[p].saved_at = Cardinality(Procs)

\* C19: the catalog is not guarded against concurrent writers. When both
\* runs load before either saves, the file after both have ended is what the
\* last saver wrote, the merge of its batch into the catalog as it was before
\* either run, whatever the other run saved; so a record only the other run
\* accepted and saved is lost.
C19_LastWriterWins ==
    BothDone /\ BothLoadedFirst =>
        /\ \A p \in Procs : hist[p].loaded = hist[LastSaver].loaded
        /\ file.data.papers =
               merge_papers(hist[LastSaver].loaded.papers,
                            all_new_papers[LastSaver])
        /\ \A p \in Procs :
               \A i \in 1..Len(hist[p].saved.papers) :
                   HasRecord(file.data.papers, hist[p].saved.papers[i])
                   \/ /\ p # LastSaver
                      /\ ~HasRecord(hist[LastSaver].saved.papers,
                                    hist[p].saved.papers[i])

\* both runs have ended, both loaded before either saved, and the file lacks
\* a record that one of them accepted and saved
C19_Witness ==
    /\ BothDone
    /\ BothLoadedFirst
    /\ \E p \in Procs :
           \E i \in 1..Len(hist[p].saved.papers) :
               /\ ~HasRecord(hist[p].loaded.papers, hist[p].saved.papers[i])
               /\ ~HasRecord(file.data.papers, hist[p].saved.papers[i])


---------------------------------------------------------------------------
(* Claim on the relevance filter in a run (Spec)                           *)

\* every record a connector can return in the runs of Spec
Fetchable ==
    UNION ({Range(ArxivAnswers[resp][d].value) :
                resp \in ArxivResponses, d \in Today..(Today + MaxTicks)}
           \cup {Range(SSAnswers[resp].value) : resp \in SSResponses})

\* those of them whose text meets the relevance rule
RelevantRecords ==
    {p \in Fetchable :
        \/ HasTerm(strong_terms, TextOf(p))
        \/ HasTerm(interp_terms, TextOf(p)) /\ HasTerm(ml_terms, TextOf(p))}

\* C20: every record a run adds to the catalog passed the relevance filter:
\* a fetched record that is not relevant is dropped before the merge and is
\* never in the merged list or in the stored catalog, and a run whose
\* fetched records are all irrelevant or duplicates of loaded records leaves
\* the papers of the catalog as they were.
C20_OnlyRelevantAdded ==
    /\ Range(all_new_papers) \subseteq RelevantRecords
    /\ Range(merged_papers) \subseteq RelevantRecords
    /\ Range(file.data.papers) \subseteq RelevantRecords
    /\ pc = "done" =>
           /\ Range(file.data.papers)
                  \subseteq Range(hist.loaded.papers)
                            \cup (Range(hist.fetched) \cap RelevantRecords)
           /\ (\A i \in 1..Len(hist.fetched) :
                   \/ hist.fetched[i] \notin RelevantRecords
                   \/ Collides(hist.fetched[i], Range(hist.loaded.papers)))
              => file.data.papers = hist.loaded.papers

\* a run that has ended without changing the papers, having fetched an
\* irrelevant record and a relevant one the catalog already held
C20_Witness ==
    /\ pc = "done"
    /\ hist.loaded.papers # <<>>
    /\ file.data.papers = hist.loaded.papers
    /\ \E i \in 1..Len(hist.fetched) : hist.fetched[i] \notin RelevantRecords
    /\ \E i \in 1..Len(hist.fetched) :
           /\ hist.fetched[i] \in RelevantRecords
           /\ HasRecord(hist.loaded.papers, hist.fetched[i])

=============================================================================
